---- MODULE Spec2Model ----
(***************************************************************************)
(* The parser-combinator engine of lib.py as a small-step evaluator.       *)
(*                                                                         *)
(* A parser object is a record tagged with its class; a string is a        *)
(* sequence of one-character strings; a parse result is None or a pair     *)
(* (tokens, rest).  Every parse method is cut at its calls: one action     *)
(* runs the method from its entry (or from the return of a call it made)   *)
(* up to its next call or its return.  The Python call stack is the        *)
(* variable stack, an uncaught exception ends the program.                 *)
(*                                                                         *)
(* calls and rets are history variables: for every invocation, named by    *)
(* its call path (job number, then the index of the call within each       *)
(* enclosing method), the receiver, the argument, how often the path was   *)
(* entered, and the value returned.                                        *)
(***************************************************************************)
EXTENDS Integers, Sequences, FiniteSets, TLC

VARIABLES exprs, input, status, stack, ret, results, calls, rets

vars == <<exprs, input, status, stack, ret, results, calls, rets>>

\* Longest input string handed to parse.
MaxLen == 3

\* Deepest call stack the evaluator is followed to.
MaxDepth == 48

----------------------------------------------------------------------------
(* Strings, tokens, results *)

Str(n) == UNION {[1..k -> {"a", "b"}] : k \in 0..n}

Tail1(s) == SubSeq(s, 2, Len(s))

IsSuffix(r, s) == Len(r) <= Len(s) /\ r = SubSeq(s, Len(s) - Len(r) + 1, Len(s))

\* A token: a Python value tagged with its type.
StrTok(s) == [k |-> "str", v |-> s]
BoolTok(b) == [k |-> "bool", v |-> b]
NoneTok == [k |-> "none", v |-> <<>>]
ListTok(ts) == [k |-> "list", v |-> ts]
FloatTok(sgn, m, e) == [k |-> "float", v |-> <<sgn, m, e>>]
IntTok(n) == [k |-> "int", v |-> n]
DictTok(d) == [k |-> "dict", v |-> d]

\* Optional[Tuple[List[Any], str]]
None == [ok |-> FALSE, tokens |-> <<>>, rest |-> <<>>]
Success(tokens, rest) == [ok |-> TRUE, tokens |-> tokens, rest |-> rest]

----------------------------------------------------------------------------
(* Parser objects *)

LetterParser(letter) == [type |-> "Letter", letter |-> letter]
Add(origin, other) == [type |-> "Add", origin |-> origin, other |-> other]
Mul(origin, other) == [type |-> "Mul", origin |-> origin, other |-> other]
RepeatParser(p) == [type |-> "Repeat", parser |-> p]
IgnoreParser(p) == [type |-> "Ignore", parser |-> p]
ConvertToType(p, conversion) ==
    [type |-> "Convert", parser |-> p, converter |-> conversion]
OptionalParser(p) == [type |-> "Optional", parser |-> p]
LazyParser(f) == [type |-> "Lazy", parser_creator |-> f]

\* main.py imports NotParser from lib and joins parsers with &; lib.py defines
\* neither.  Negation: succeeds, consuming nothing, iff the wrapped parser
\* fails.  Conjunction: both operands must succeed from the same position.
NotParser(p) == [type |-> "Not", parser |-> p]
And(origin, other) == [type |-> "And", origin |-> origin, other |-> other]

\* Variant of LetterInitRaises: the length test off by one.
LetterInitRaisesOverTwo(letter) == Len(letter) > 2

\* LetterParser.__init__ raises for a letter of more than one character.
LetterInitRaises(letter) == Len(letter) > 1

RECURSIVE ConstructRaises(_)
ConstructRaises(p) ==
    CASE p.type = "Letter" -> LetterInitRaises(p.letter)
      [] p.type \in {"Add", "Mul", "And"} ->
            ConstructRaises(p.origin) \/ ConstructRaises(p.other)
      [] p.type = "Lazy" -> FALSE
      [] OTHER -> ConstructRaises(p.parser)

----------------------------------------------------------------------------
(* Conversion functions: what ConvertToType calls on the token list.  Each *)
(* gives [raises, value]: an exception, or the single token returned.      *)

Raise == [raises |-> TRUE, value |-> NoneTok]
Value(t) == [raises |-> FALSE, value |-> t]

AllStr(tokens) == \A i \in 1..Len(tokens) : tokens[i].k = "str"

RECURSIVE Join(_)
Join(tokens) ==
    IF tokens = <<>> THEN <<>> ELSE tokens[1].v \o Join(Tail(tokens))

Digit == {"0", "1", "2", "3", "4", "5", "6", "7", "8", "9"}

DigitVal(c) ==
    CASE c = "0" -> 0 [] c = "1" -> 1 [] c = "2" -> 2 [] c = "3" -> 3
      [] c = "4" -> 4 [] c = "5" -> 5 [] c = "6" -> 6 [] c = "7" -> 7
      [] c = "8" -> 8 [] c = "9" -> 9

\* The index of the last character of the run of digits of s that starts at
\* i (i - 1 when there is none).
RECURSIVE SpanEnd(_, _)
SpanEnd(s, i) ==
    IF i <= Len(s) /\ s[i] \in Digit THEN SpanEnd(s, i + 1) ELSE i - 1

RECURSIVE NatOf(_)
NatOf(ds) ==
    IF ds = <<>> THEN 0
    ELSE 10 * NatOf(SubSeq(ds, 1, Len(ds) - 1)) + DigitVal(ds[Len(ds)])

RECURSIVE Normal(_, _)
Normal(m, e) ==
    IF m = 0 THEN <<0, 0>>
    ELSE IF m % 10 = 0 THEN Normal(m \div 10, e + 1) ELSE <<m, e>>

\* int(s) for s over digits and signs: [sign] digit+ .
IntOf(s) ==
    LET signed == s # <<>> /\ s[1] \in {"-", "+"}
        i1 == IF signed THEN 2 ELSE 1
        iEnd == SpanEnd(s, i1)
    IN  IF iEnd < i1 \/ iEnd # Len(s) THEN Raise
        ELSE LET n == NatOf(SubSeq(s, i1, iEnd))
             IN  Value(IntTok(IF signed /\ s[1] = "-" THEN 0 - n ELSE n))

\* float(s) for s over digits, signs, the point and e/E:
\* [sign] (digit+ [. digit*] | . digit+) [(e|E) [sign] digit+], as the decimal
\* number sign * m * 10^e with m free of trailing zeros.
FloatOf(s) ==
    LET signed == s # <<>> /\ s[1] \in {"-", "+"}
        i1 == IF signed THEN 2 ELSE 1
        intEnd == SpanEnd(s, i1)
        point == intEnd < Len(s) /\ s[intEnd + 1] = "."
        fracEnd == IF point THEN SpanEnd(s, intEnd + 2) ELSE intEnd
        nFrac == IF point THEN fracEnd - (intEnd + 1) ELSE 0
        nInt == intEnd - i1 + 1
        hasExp == fracEnd < Len(s) /\ s[fracEnd + 1] \in {"e", "E"}
        esigned == hasExp /\ fracEnd + 1 < Len(s)
                     /\ s[fracEnd + 2] \in {"-", "+"}
        e1 == IF esigned THEN fracEnd + 3 ELSE fracEnd + 2
        expEnd == IF hasExp THEN SpanEnd(s, e1) ELSE fracEnd
        wellFormed == /\ nInt + nFrac >= 1
                      /\ hasExp => expEnd >= e1
                      /\ expEnd = Len(s)
    IN  IF ~wellFormed THEN Raise
        ELSE LET digits == SubSeq(s, i1, intEnd)
                              \o (IF point THEN SubSeq(s, intEnd + 2, fracEnd)
                                  ELSE <<>>)
                 ex == IF hasExp THEN NatOf(SubSeq(s, e1, expEnd)) ELSE 0
                 e == (IF esigned /\ s[fracEnd + 2] = "-" THEN 0 - ex ELSE ex)
                        - nFrac
                 me == Normal(NatOf(digits), e)
             IN  Value(FloatTok(IF signed /\ s[1] = "-" THEN "-" ELSE "+",
                                me[1], me[2]))

\* lambda x: "".join(x)
JoinTokens(tokens) ==
    IF AllStr(tokens) THEN Value(StrTok(Join(tokens))) ELSE Raise

\* lambda tokens: reduce(lambda acc, x: acc + x, tokens), on the tokens a
\* WordParser hands it: the letters of its word.
ReduceAdd(tokens) ==
    IF tokens # <<>> /\ AllStr(tokens) THEN Value(StrTok(Join(tokens)))
    ELSE Raise

\* lambda x: float("".join(x))
FloatJoin(tokens) == IF AllStr(tokens) THEN FloatOf(Join(tokens)) ELSE Raise

\* lambda x: int("".join(x))
IntJoin(tokens) == IF AllStr(tokens) THEN IntOf(Join(tokens)) ELSE Raise

string_to_bool(input_tokens) ==
    IF Len(input_tokens) # 1 THEN Raise
    ELSE IF input_tokens[1] = StrTok(<<"t", "r", "u", "e">>)
         THEN Value(BoolTok(TRUE))
    ELSE IF input_tokens[1] = StrTok(<<"f", "a", "l", "s", "e">>)
         THEN Value(BoolTok(FALSE))
    ELSE Raise

null_to_none(input_tokens) ==
    IF Len(input_tokens) # 1 THEN Raise
    ELSE IF input_tokens[1] = StrTok(<<"n", "u", "l", "l">>)
         THEN Value(NoneTok)
    ELSE Raise

serialize_string_in_string(input_tokens) ==
    IF input_tokens = <<>> THEN Raise
    ELSE IF /\ input_tokens[1] = input_tokens[Len(input_tokens)]
            /\ input_tokens[1] = StrTok(<<"\"">>)
         THEN JoinTokens(SubSeq(input_tokens, 2, Len(input_tokens) - 1))
    ELSE Raise

\* The dict as a function of its keys; a later pair replaces an earlier one.
RECURSIVE DictOf(_)
DictOf(pairs) ==
    IF pairs = <<>> THEN <<>>
    ELSE LET n == Len(pairs)
         IN  (pairs[n - 1].v :> pairs[n]) @@ DictOf(SubSeq(pairs, 1, n - 2))

tokens_to_dict(input_tokens) ==
    IF Len(input_tokens) % 2 # 0 THEN Raise
    ELSE IF \E i \in 1..Len(input_tokens) :
              i % 2 = 1 /\ input_tokens[i].k # "str"
         THEN Raise
    ELSE Value(DictTok(DictOf(input_tokens)))

\* self.converter(tokens)
Converter(conversion, tokens) ==
    CASE conversion = "join" -> JoinTokens(tokens)
      [] conversion = "reduce_add" -> ReduceAdd(tokens)
      [] conversion = "float_join" -> FloatJoin(tokens)
      [] conversion = "int_join" -> IntJoin(tokens)
      [] conversion = "string_to_bool" -> string_to_bool(tokens)
      [] conversion = "null_to_none" -> null_to_none(tokens)
      [] conversion = "serialize_string_in_string" ->
            serialize_string_in_string(tokens)
      [] conversion = "tokens_to_dict" -> tokens_to_dict(tokens)
      [] conversion = "identity" -> Value(ListTok(tokens))

----------------------------------------------------------------------------
(* The results the parse methods compute from their calls' results *)

\* Variant of LetterResult: input_str[:-1] for input_str[1:].
LetterResultDropsLast(letter, input_str) ==
    IF Len(input_str) = 0 THEN None
    ELSE IF <<input_str[1]>> = letter
         THEN Success(<<StrTok(letter)>>, SubSeq(input_str, 1, Len(input_str) - 1))
    ELSE None

\* LetterParser.parse
LetterResult(letter, input_str) ==
    IF Len(input_str) = 0 THEN None
    ELSE IF <<input_str[1]>> = letter
         THEN Success(<<StrTok(letter)>>, Tail1(input_str))
    ELSE None

\* Variant of AddResult: the first part's result survives the second's failure.
AddResultKeepsFirst(first, second) ==
    IF ~second.ok THEN first
    ELSE Success(first.tokens \o second.tokens, second.rest)

\* Variant of AddResult: the second token list appended as one element.
AddResultNested(first, second) ==
    IF ~second.ok THEN None
    ELSE Success(Append(first.tokens, ListTok(second.tokens)), second.rest)

\* __add__'s Result.parse, once both calls returned
AddResult(first, second) ==
    IF ~second.ok THEN None
    ELSE Success(first.tokens \o second.tokens, second.rest)

\* Variant of RepeatResult: next_tokens + tokens.
RepeatResultReversed(result, next_result) ==
    IF ~next_result.ok THEN Success(result.tokens, result.rest)
    ELSE Success(next_result.tokens \o result.tokens, next_result.rest)

\* RepeatParser.parse, once self.parse(rest) returned
RepeatResult(result, next_result) ==
    IF ~next_result.ok THEN Success(result.tokens, result.rest)
    ELSE Success(result.tokens \o next_result.tokens, next_result.rest)

\* IgnoreParser.parse
IgnoreResult(result) ==
    IF ~result.ok THEN None ELSE Success(<<>>, result.rest)

\* Variant of OptionalResult: ([], "") for ([], input_str).
OptionalResultEmptyRest(result, input_str) ==
    IF ~result.ok THEN Success(<<>>, <<>>) ELSE result

\* OptionalParser.parse
OptionalResult(result, input_str) ==
    IF ~result.ok THEN Success(<<>>, input_str) ELSE result

----------------------------------------------------------------------------
(* The evaluator *)

Frame(p, s, path) ==
    [self |-> p, input_str |-> s, pc |-> "parse", local |-> None, path |-> path]

top == stack[Len(stack)]

Running == status = "parsing" /\ stack # <<>>

At(type, pc) == Running /\ top.self.type = type /\ top.pc = pc

LogCall(path, p, s) ==
    (path :> [p |-> p, inp |-> s,
              n |-> IF path \in DOMAIN calls THEN calls[path].n + 1 ELSE 1])
        @@ calls

\* The running method calls p.parse(s), its k-th call, and will go on at pc
\* with local kept.
Invoke(pc, local, p, s, k) ==
    /\ Len(stack) < MaxDepth
    /\ stack' = Append([stack EXCEPT ![Len(stack)].pc = pc,
                                     ![Len(stack)].local = local],
                       Frame(p, s, Append(top.path, k)))
    /\ calls' = LogCall(Append(top.path, k), p, s)
    /\ UNCHANGED <<exprs, input, status, ret, results, rets>>

\* The running method returns res to its caller.
Return(res) ==
    /\ stack' = SubSeq(stack, 1, Len(stack) - 1)
    /\ ret' = res
    /\ rets' = (top.path :> res) @@ rets
    /\ UNCHANGED <<exprs, input, status, results, calls>>

\* An exception nothing catches: the interpreter unwinds the stack and ends.
Uncaught ==
    /\ status' = "exception"
    /\ stack' = <<>>
    /\ UNCHANGED <<exprs, input, ret, results, calls, rets>>

\* The grammar's module-level expressions are evaluated: every LetterParser
\* is constructed.
Construct ==
    /\ status = "construct"
    /\ status' = IF \E j \in 1..Len(exprs) : ConstructRaises(exprs[j])
                 THEN "config_error" ELSE "ready"
    /\ UNCHANGED <<exprs, input, stack, ret, results, calls, rets>>

\* print(parser.parse(input)): the call
ClientParse ==
    /\ status = "ready"
    /\ LET j == Len(results) + 1
       IN  /\ stack' = <<Frame(exprs[j], input, <<j>>)>>
           /\ calls' = LogCall(<<j>>, exprs[j], input)
    /\ status' = "parsing"
    /\ UNCHANGED <<exprs, input, ret, results, rets>>

\* print(parser.parse(input)): the result
ClientPrint ==
    /\ status = "parsing" /\ stack = <<>>
    /\ results' = Append(results, ret)
    /\ status' = IF Len(results') = Len(exprs) THEN "done" ELSE "ready"
    /\ UNCHANGED <<exprs, input, stack, ret, calls, rets>>

LetterParse ==
    /\ At("Letter", "parse")
    /\ Return(LetterResult(top.self.letter, top.input_str))

AddParse ==
    /\ At("Add", "parse")
    /\ Invoke("first", None, top.self.origin, top.input_str, 1)

AddFirst ==
    /\ At("Add", "first")
    /\ IF ret.ok
       THEN Invoke("second", ret, top.self.other, ret.rest, 2)
       ELSE Return(None)

AddSecond ==
    /\ At("Add", "second")
    /\ Return(AddResult(top.local, ret))

MulParse ==
    /\ At("Mul", "parse")
    /\ Invoke("first", None, top.self.origin, top.input_str, 1)

\* Variant of MulFirst: other.parse is called whatever the first returned.
MulFirstAlwaysSecond ==
    /\ At("Mul", "first")
    /\ Invoke("second", None, top.self.other, top.input_str, 2)

MulFirst ==
    /\ At("Mul", "first")
    /\ IF ret.ok
       THEN Return(ret)
       ELSE Invoke("second", None, top.self.other, top.input_str, 2)

MulSecond ==
    /\ At("Mul", "second")
    /\ Return(ret)

RepeatParse ==
    /\ At("Repeat", "parse")
    /\ Invoke("result", None, top.self.parser, top.input_str, 1)

\* Variant of RepeatFirst: self.parse(input_str) for self.parse(rest).
RepeatFirstSameInput ==
    /\ At("Repeat", "result")
    /\ IF ~ret.ok
       THEN Return(None)
       ELSE Invoke("next_result", ret, top.self, top.input_str, 2)

RepeatFirst ==
    /\ At("Repeat", "result")
    /\ IF ~ret.ok
       THEN Return(None)
       ELSE Invoke("next_result", ret, top.self, ret.rest, 2)

RepeatNext ==
    /\ At("Repeat", "next_result")
    /\ Return(RepeatResult(top.local, ret))

IgnoreParse ==
    /\ At("Ignore", "parse")
    /\ Invoke("result", None, top.self.parser, top.input_str, 1)

IgnoreReturn ==
    /\ At("Ignore", "result")
    /\ Return(IgnoreResult(ret))

ConvertParse ==
    /\ At("Convert", "parse")
    /\ Invoke("result", None, top.self.parser, top.input_str, 1)

ConvertReturn ==
    /\ At("Convert", "result")
    /\ IF ~ret.ok
       THEN Return(None)
       ELSE LET c == Converter(top.self.converter, ret.tokens)
            IN  IF c.raises THEN Uncaught
                ELSE Return(Success(<<c.value>>, ret.rest))

OptionalParse ==
    /\ At("Optional", "parse")
    /\ Invoke("result", None, top.self.parser, top.input_str, 1)

OptionalReturn ==
    /\ At("Optional", "result")
    /\ Return(OptionalResult(ret, top.input_str))

----------------------------------------------------------------------------
(* The grammar of main.py *)

\* reduce(lambda acc, x: acc + x, ps)
RECURSIVE SumOf(_)
SumOf(ps) ==
    IF Len(ps) = 1 THEN ps[1]
    ELSE Add(SumOf(SubSeq(ps, 1, Len(ps) - 1)), ps[Len(ps)])

\* reduce(lambda acc, x: acc * x, ps)
RECURSIVE ChoiceOf(_)
ChoiceOf(ps) ==
    IF Len(ps) = 1 THEN ps[1]
    ELSE Mul(ChoiceOf(SubSeq(ps, 1, Len(ps) - 1)), ps[Len(ps)])

\* reduce(lambda acc, x: x * acc, ps)
RECURSIVE ChoiceOfRev(_)
ChoiceOfRev(ps) ==
    IF Len(ps) = 1 THEN ps[1]
    ELSE Mul(ps[Len(ps)], ChoiceOfRev(SubSeq(ps, 1, Len(ps) - 1)))

Letters(word) == [i \in 1..Len(word) |-> LetterParser(<<word[i]>>)]

WordParser(word) == ConvertToType(SumOf(Letters(word)), "reduce_add")

numbers == <<"1", "2", "3", "4", "5", "6", "7", "8", "9", "0">>
zero_parser == LetterParser(<<"0">>)
multiple_zero_parser == Add(zero_parser, RepeatParser(zero_parser))
any_number_parser == ChoiceOf(Letters(numbers))
whole_number_parser == RepeatParser(any_number_parser)
sign_parser == OptionalParser(LetterParser(<<"-">>))
\* Variant of exponent_parser: without the two lookaheads.
exponent_parser_unguarded == Add(sign_parser, whole_number_parser)

exponent_parser ==
    And(And(NotParser(multiple_zero_parser),
            NotParser(Add(Add(sign_parser, zero_parser), whole_number_parser))),
        Add(sign_parser, whole_number_parser))
mantissa_parser == whole_number_parser
dot_parser == LetterParser(<<".">>)
space_parser == OptionalParser(IgnoreParser(RepeatParser(LetterParser(<<" ">>))))
raw_float_parser_no_spaces ==
    Add(Add(Add(sign_parser, exponent_parser), dot_parser), mantissa_parser)
float_parser ==
    ConvertToType(Add(Add(space_parser, raw_float_parser_no_spaces), space_parser),
                  "float_join")
int_parser ==
    ConvertToType(Add(Add(space_parser, exponent_parser), space_parser),
                  "int_join")
e_parser == Mul(LetterParser(<<"e">>), LetterParser(<<"E">>))
e_notation_parser ==
    ConvertToType(
        Add(Add(Add(Add(space_parser,
                        ConvertToType(raw_float_parser_no_spaces, "join")),
                    e_parser),
                ConvertToType(Add(sign_parser, whole_number_parser), "join")),
            space_parser),
        "float_join")
number_parser == Mul(Mul(e_notation_parser, float_parser), int_parser)
bool_parser ==
    ConvertToType(
        Add(Add(space_parser,
                Mul(WordParser(<<"t", "r", "u", "e">>),
                    WordParser(<<"f", "a", "l", "s", "e">>))),
            space_parser),
        "string_to_bool")
letters ==
    <<"a", "b", "c", "d", "e", "f", "g", "h", "i", "j", "k", "l", "m", 
      "n", "o", "p", "q", "r", "s", "t", "u", "v", "w", "x", "y", "z">>
upper_case ==
    <<"A", "B", "C", "D", "E", "F", "G", "H", "I", "J", "K", "L", "M", 
      "N", "O", "P", "Q", "R", "S", "T", "U", "V", "W", "X", "Y", "Z">>
symbols ==
    <<"!", "@", "#", "$", "%", "^", "&", "*", "(", ")", "-", "+", "[", 
      "]", "{", "}", ";", "'", "<", ">", ",", ".", "/", "?", " ">>
string_content_parser ==
    Mul(Mul(WordParser(<<"\\", "\"">>),
            ChoiceOfRev(Letters(letters \o upper_case \o symbols))),
        any_number_parser)
quote_parser == LetterParser(<<"\"">>)
string_parser ==
    ConvertToType(
        Add(Add(Add(Add(space_parser, quote_parser),
                    OptionalParser(RepeatParser(string_content_parser))),
                quote_parser),
            space_parser),
        "serialize_string_in_string")
null_parser ==
    ConvertToType(
        Add(Add(space_parser, WordParser(<<"n", "u", "l", "l">>)), space_parser),
        "null_to_none")
json_parser == LazyParser("json_parser")
array_element_parser ==
    Add(OptionalParser(RepeatParser(
            Add(json_parser, IgnoreParser(LetterParser(<<",">>))))),
        OptionalParser(json_parser))
array_parser ==
    ConvertToType(
        SumOf(<<space_parser, IgnoreParser(LetterParser(<<"[">>)), space_parser,
                array_element_parser, space_parser,
                IgnoreParser(LetterParser(<<"]">>)), space_parser>>),
        "identity")
object_element_parser ==
    SumOf(<<string_parser, space_parser, IgnoreParser(LetterParser(<<":">>)),
            space_parser, json_parser, space_parser>>)
object_element_parser_with_comma ==
    Add(Add(object_element_parser, IgnoreParser(LetterParser(<<",">>))),
        space_parser)
full_object_element_parser ==
    Mul(Add(RepeatParser(object_element_parser_with_comma),
            object_element_parser),
        object_element_parser)
object_parser ==
    ConvertToType(
        SumOf(<<space_parser, IgnoreParser(LetterParser(<<"{">>)), space_parser,
                full_object_element_parser, space_parser,
                IgnoreParser(LetterParser(<<"}">>)), space_parser>>),
        "tokens_to_dict")

\* self.parser_creator(): the lambda handed to LazyParser
ParserCreator(f) ==
    CASE f = "json_parser" ->
        Add(Add(space_parser,
                ChoiceOf(<<number_parser, bool_parser, string_parser,
                           array_parser, object_parser, null_parser>>)),
            space_parser)

----------------------------------------------------------------------------
(* LazyParser, and the negation and conjunction main.py uses *)

LazyParse ==
    /\ At("Lazy", "parse")
    /\ Invoke("result", None, ParserCreator(top.self.parser_creator),
              top.input_str, 1)

LazyReturn ==
    /\ At("Lazy", "result")
    /\ Return(ret)

NotResult(result, input_str) ==
    IF result.ok THEN None ELSE Success(<<>>, input_str)

NotParse ==
    /\ At("Not", "parse")
    /\ Invoke("result", None, top.self.parser, top.input_str, 1)

NotReturn ==
    /\ At("Not", "result")
    /\ Return(NotResult(ret, top.input_str))

AndParse ==
    /\ At("And", "parse")
    /\ Invoke("first", None, top.self.origin, top.input_str, 1)

AndFirst ==
    /\ At("And", "first")
    /\ IF ret.ok
       THEN Invoke("second", None, top.self.other, top.input_str, 2)
       ELSE Return(None)

AndSecond ==
    /\ At("And", "second")
    /\ Return(ret)

----------------------------------------------------------------------------
(* The programs followed: a grammar, and the string it is asked to parse *)

Atoms == {LetterParser(<<"a">>), LetterParser(<<"b">>)}

\* LetterParser("") and LetterParser("ab")
OddAtoms == {LetterParser(<<>>), LetterParser(<<"a", "b">>)}

Unary(S) ==
    UNION {{RepeatParser(p), IgnoreParser(p), OptionalParser(p), NotParser(p),
            ConvertToType(p, "join"), ConvertToType(p, "string_to_bool")} :
           p \in S}

Binary(S, T) ==
    UNION {{Add(p, q), Mul(p, q), And(p, q)} : <<p, q>> \in S \X T}

Level1 == Unary(Atoms) \cup Binary(Atoms, Atoms)

Grammars ==
    Atoms \cup OddAtoms
      \cup Unary(Atoms \cup OddAtoms)
      \cup Binary(Atoms \cup OddAtoms, Atoms \cup OddAtoms)
      \cup Unary(Level1) \cup Binary(Level1, Atoms) \cup Binary(Atoms, Level1)

\* The operands of the two groupings of a sequence of three.
Operands ==
    Atoms \cup {OptionalParser(LetterParser(<<"a">>)),
                RepeatParser(LetterParser(<<"b">>)),
                IgnoreParser(LetterParser(<<"a">>)),
                Mul(LetterParser(<<"b">>), LetterParser(<<"a">>))}

NumStr(n) == UNION {[1..k -> {"0", "5", "-"}] : k \in 0..n}

\* The strings main.py hands to json_parser.
MainInputs ==
    {<<"0", "0", "0", "0", ".", "0">>, <<"n", "u", "l", "l">>,
     <<"t", "r", "u", "e">>, <<"0", ".", "0">>}

Init ==
    /\ \/ exprs \in {<<p>> : p \in Grammars} /\ input \in Str(MaxLen)
       \/ /\ exprs \in {<<Add(Add(t[1], t[2]), t[3]), Add(t[1], Add(t[2], t[3]))>> :
                        t \in Operands \X Operands \X Operands}
          /\ input \in Str(MaxLen)
       \/ exprs = <<exponent_parser>> /\ input \in NumStr(MaxLen)
       \/ exprs = <<json_parser>> /\ input \in MainInputs
    /\ status = "construct"
    /\ stack = <<>>
    /\ ret = None
    /\ results = <<>>
    /\ calls = <<>>
    /\ rets = <<>>

Next ==
    \/ Construct
    \/ ClientParse
    \/ ClientPrint
    \/ LetterParse
    \/ AddParse
    \/ AddFirst
    \/ AddSecond
    \/ MulParse
    \/ MulFirst
    \/ MulSecond
    \/ RepeatParse
    \/ RepeatFirst
    \/ RepeatNext
    \/ IgnoreParse
    \/ IgnoreReturn
    \/ ConvertParse
    \/ ConvertReturn
    \/ OptionalParse
    \/ OptionalReturn
    \/ LazyParse
    \/ LazyReturn
    \/ NotParse
    \/ NotReturn
    \/ AndParse
    \/ AndFirst
    \/ AndSecond

Spec == Init /\ [][Next]_vars

\* One thread runs the evaluation: a step that can be taken is taken.
FairSpec == Spec /\ WF_vars(Next)

----------------------------------------------------------------------------
(* Reading the history *)

Called(q) == q \in DOMAIN calls
Returned(q) == q \in DOMAIN rets
IsCall(q, type) == calls[q].p.type = type

Halted == status \in {"done", "exception", "config_error"}

\* C1: ordered choice.  A is called once, on the choice's input.  B is called
\* only after A failed, then once and on the same input.  The choice returns
\* A's result when A succeeded, without any call of B, and B's result otherwise.
C1_OrderedChoice ==
    \A q \in DOMAIN calls : IsCall(q, "Mul") =>
        LET c == calls[q]
            a == Append(q, 1)
            b == Append(q, 2)
        IN  /\ Called(a) =>
                calls[a].n = 1 /\ calls[a].inp = c.inp /\ calls[a].p = c.p.origin
            /\ Called(b) =>
                /\ Returned(a) /\ ~rets[a].ok
                /\ calls[b].n = 1 /\ calls[b].inp = c.inp
                /\ calls[b].p = c.p.other
            /\ Returned(q) =>
                /\ Returned(a)
                /\ IF rets[a].ok THEN rets[q] = rets[a] /\ ~Called(b)
                   ELSE Returned(b) /\ rets[q] = rets[b]

\* One evaluation holds a choice that stopped at A and a choice that fell back
\* to B.
C1_Witness ==
    \E q1, q2 \in DOMAIN rets :
        /\ IsCall(q1, "Mul") /\ rets[Append(q1, 1)].ok /\ ~Called(Append(q1, 2))
        /\ IsCall(q2, "Mul") /\ ~rets[Append(q2, 1)].ok
        /\ Returned(Append(q2, 2)) /\ rets[q2].ok

\* C2: sequence.  A runs on the input; when it fails the sequence fails; else
\* B runs on A's remainder; when B fails the sequence fails and nothing of A
\* is returned; else the result is A's tokens, then B's, and B's remainder.
C2_Sequence ==
    \A q \in DOMAIN rets : IsCall(q, "Add") =>
        LET c == calls[q]
            a == Append(q, 1)
            b == Append(q, 2)
        IN  /\ Returned(a) /\ calls[a].inp = c.inp /\ calls[a].p = c.p.origin
            /\ IF ~rets[a].ok THEN rets[q] = None
               ELSE /\ Returned(b) /\ calls[b].inp = rets[a].rest
                    /\ calls[b].p = c.p.other
                    /\ IF ~rets[b].ok THEN rets[q] = None
                       ELSE rets[q] = Success(rets[a].tokens \o rets[b].tokens,
                                              rets[b].rest)

\* One evaluation holds a sequence whose two parts both produced tokens and a
\* sequence that failed after its first part had succeeded.
C2_Witness ==
    \E q1, q2 \in DOMAIN rets :
        /\ IsCall(q1, "Add") /\ rets[q1].ok
        /\ rets[Append(q1, 1)].tokens # <<>> /\ rets[Append(q1, 2)].tokens # <<>>
        /\ IsCall(q2, "Add") /\ rets[Append(q2, 1)].ok /\ ~rets[q2].ok

\* The applications of P a repetition called at q makes: its own, then those
\* of its recursive calls, up to the first that failed (or is still running).
RECURSIVE Applications(_)
Applications(q) ==
    IF Returned(Append(q, 1)) /\ rets[Append(q, 1)].ok /\ Called(Append(q, 2))
    THEN <<Append(q, 1)>> \o Applications(Append(q, 2))
    ELSE <<Append(q, 1)>>

RECURSIVE TokensOf(_)
TokensOf(paths) ==
    IF paths = <<>> THEN <<>>
    ELSE rets[paths[1]].tokens \o TokensOf(Tail(paths))

\* C3: repetition is one-or-more.  It fails iff P fails on the input.  Else P
\* was applied n >= 1 times with success, each time on the remainder of the
\* application before, and once more without: the result is the tokens of
\* the n applications in order and the remainder of the last, on which P
\* failed.
C3_Repetition ==
    \A q \in DOMAIN rets : IsCall(q, "Repeat") =>
        LET apps == Applications(q)
            n == Len(apps) - 1
        IN  /\ \A i \in 1..(n + 1) :
                /\ Returned(apps[i]) /\ calls[apps[i]].p = calls[q].p.parser
                /\ calls[apps[i]].inp =
                      IF i = 1 THEN calls[q].inp ELSE rets[apps[i - 1]].rest
                /\ rets[apps[i]].ok <=> i <= n
            /\ rets[q].ok <=> rets[apps[1]].ok
            /\ rets[q].ok =>
                /\ n >= 1
                /\ rets[q].tokens = TokensOf(SubSeq(apps, 1, n))
                /\ rets[q].rest = rets[apps[n]].rest
                /\ rets[q].rest = calls[apps[n + 1]].inp

\* A repetition returned after two applications with different tokens.
C3_Witness ==
    \E q \in DOMAIN rets :
        /\ IsCall(q, "Repeat") /\ Len(Applications(q)) >= 3
        /\ Len(rets[q].tokens) >= 2 /\ rets[q].tokens[1] # rets[q].tokens[2]

\* C4: a conversion function that raises on the tokens of a successful P makes
\* the Convert parser return None, and no exception ends the program.
C4_ConvertErrorIsFailure ==
    \A q \in DOMAIN calls :
        (/\ IsCall(q, "Convert") /\ Returned(Append(q, 1))
         /\ rets[Append(q, 1)].ok
         /\ Converter(calls[q].p.converter, rets[Append(q, 1)].tokens).raises)
        => /\ status # "exception"
           /\ Returned(q) => rets[q] = None

\* The strings the LetterParsers of an expression are constructed from.
RECURSIVE LetterArgs(_)
LetterArgs(p) ==
    CASE p.type = "Letter" -> {p.letter}
      [] p.type \in {"Add", "Mul", "And"} ->
            LetterArgs(p.origin) \cup LetterArgs(p.other)
      [] p.type = "Lazy" -> {}
      [] OTHER -> LetterArgs(p.parser)

AllLetterArgs == UNION {LetterArgs(exprs[j]) : j \in 1..Len(exprs)}

\* C5 as stated: a grammar with a LetterParser of no character or of more than
\* one is rejected when it is constructed, and no such parser is ever asked
\* to parse.
C5_ExactlyOneCharacter ==
    /\ (status # "construct" /\ \E l \in AllLetterArgs : Len(l) # 1)
          => status = "config_error"
    /\ \A q \in DOMAIN calls :
          IsCall(q, "Letter") => Len(calls[q].p.letter) = 1

\* C5 amended: a grammar is rejected when it is constructed iff one of its
\* LetterParsers is given more than one character, and then nothing is parsed
\* and no result is produced; LetterParser("") is constructed, and returns
\* None on every input.
C5_AtMostOneCharacter ==
    /\ status # "construct" =>
          (status = "config_error" <=> \E l \in AllLetterArgs : Len(l) > 1)
    /\ status = "config_error" => calls = <<>> /\ results = <<>>
    /\ \A q \in DOMAIN calls : IsCall(q, "Letter") =>
          /\ Len(calls[q].p.letter) <= 1
          /\ (Returned(q) /\ calls[q].p.letter = <<>>) => rets[q] = None

\* LetterParser("") returned from a parse of a string that is not empty.
C5_Witness ==
    \E q \in DOMAIN rets :
        IsCall(q, "Letter") /\ calls[q].p.letter = <<>> /\ calls[q].inp # <<>>

\* C6: Optional never fails.  It runs P on its input; when P fails it returns
\* no tokens and the whole input, and P's result otherwise.
C6_Optional ==
    \A q \in DOMAIN rets : IsCall(q, "Optional") =>
        LET a == Append(q, 1)
        IN  /\ rets[q].ok
            /\ Returned(a) /\ calls[a].inp = calls[q].inp
            /\ calls[a].p = calls[q].p.parser
            /\ IF ~rets[a].ok THEN rets[q] = Success(<<>>, calls[q].inp)
               ELSE rets[q] = rets[a]

\* An Optional returned whose P had failed on a string that is not empty.
C6_Witness ==
    \E q \in DOMAIN rets :
        IsCall(q, "Optional") /\ ~rets[Append(q, 1)].ok /\ calls[q].inp # <<>>

IsRegrouping ==
    /\ Len(exprs) = 2
    /\ exprs[1].type = "Add" /\ exprs[1].origin.type = "Add"
    /\ exprs[2] = Add(exprs[1].origin.origin,
                      Add(exprs[1].origin.other, exprs[1].other))

\* C7: (A + B) + C and A + (B + C), run on the same input, return the same:
\* both None, or the same tokens and the same remainder.
C7_Associativity ==
    (status = "done" /\ IsRegrouping) => results[1] = results[2]

\* Both groupings were run and matched three tokens.
C7_Witness ==
    /\ status = "done" /\ IsRegrouping
    /\ results[1].ok /\ Len(results[1].tokens) = 3

\* C8: whatever parser returns a success, at whatever depth, its remainder is
\* a suffix of the string given to the outermost parse.
C8_RemainderIsSuffix ==
    \A q \in DOMAIN rets : rets[q].ok => IsSuffix(rets[q].rest, input)

\* A parser three calls down returned part of the input, and not all of it.
C8_Witness ==
    \E q \in DOMAIN rets :
        /\ Len(q) >= 3 /\ rets[q].ok
        /\ rets[q].rest # <<>> /\ Len(rets[q].rest) < Len(input)

\* P succeeded for the repetition called at q and consumed nothing.
ZeroProgress(q) ==
    /\ IsCall(q, "Repeat") /\ Returned(Append(q, 1))
    /\ rets[Append(q, 1)].ok /\ rets[Append(q, 1)].rest = calls[q].inp

Succeeded(q) == Returned(q) /\ rets[q].ok

\* How many applications of P the repetition called at q has seen succeed.
Successes(q) ==
    LET apps == Applications(q)
    IN  Cardinality({i \in 1..Len(apps) : Succeeded(apps[i])})

\* Every application of P that succeeded for q left less than it was given.
Consuming(q) ==
    LET apps == Applications(q)
    IN  \A i \in 1..Len(apps) :
            Succeeded(apps[i]) =>
                Len(rets[apps[i]].rest) < Len(calls[apps[i]].inp)

C9_Bounded ==
    \A q \in DOMAIN calls : IsCall(q, "Repeat") =>
        /\ Consuming(q) => Successes(q) <= Len(calls[q].inp)
        /\ ZeroProgress(q) =>
            /\ ~Returned(q) /\ Len(results) < q[1]
            /\ Called(Append(q, 2)) =>
                /\ calls[Append(q, 2)].p = calls[q].p
                /\ calls[Append(q, 2)].inp = calls[q].inp

C9_Stops == Halted \/ \E q \in DOMAIN calls : ZeroProgress(q)

\* C9: a repetition whose P consumes something whenever it succeeds sees at
\* most len(input) applications succeed, and every evaluation in which no
\* repetition sees P succeed on nothing comes to its end.  Once P has
\* succeeded on nothing, the repetition calls itself on the same input and
\* neither it nor the parse it is part of ever returns.
C9_RepeatTermination == []C9_Bounded /\ <>C9_Stops

\* RepeatParser(OptionalParser(X)) three levels into its recursion at one
\* position, X having failed there each time.
C9_Witness ==
    \E q \in DOMAIN calls :
        /\ ZeroProgress(q) /\ calls[q].p.parser.type = "Optional"
        /\ ~rets[Append(Append(q, 1), 1)].ok
        /\ Len(Applications(q)) >= 3

LeadingZero(s) == Len(s) >= 2 /\ s[1] = "0" /\ s[2] \in Digit

\* C10: the integer part of a number fails on every string that starts with a
\* zero followed by a digit, and json_parser returns None for "0000.0".
C10_LeadingZeroRejected ==
    /\ (exprs = <<exponent_parser>> /\ LeadingZero(input)) =>
          /\ status # "exception"
          /\ status = "done" => results = <<None>>
    /\ (exprs = <<json_parser>> /\ input = <<"0", "0", "0", "0", ".", "0">>) =>
          /\ status # "exception"
          /\ status = "done" => results = <<None>>

\* json_parser.parse("0000.0") returned.
C10_Witness ==
    /\ exprs = <<json_parser>> /\ input = <<"0", "0", "0", "0", ".", "0">>
    /\ status = "done"

====
